---- MODULE Spec2Model ----
(***************************************************************************)
(* Request dispatcher (src/src/http.ts) and generic CRUD resource          *)
(* generator (resource.ts) of the ModulaCMS admin SDK.                     *)
(*                                                                         *)
(* Strings the code processes character by character (URLs, query         *)
(* strings, content-type headers) are sequences of one-character strings.  *)
(* JavaScript values are records tagged with their typeof.                 *)
(* The platform (fetch, AbortSignal, AbortController, URLSearchParams,     *)
(* JSON) follows the WHATWG Fetch/DOM/URL standards and ECMA-262.          *)
(***************************************************************************)
EXTENDS Integers, Sequences, FiniteSets, TLC

\* The field names of the records of the model. TLC keeps the fields of a
\* record in the order in which their names first appear in the module; every
\* record constructor below lists its fields in this order.
FieldNames ==
    DOMAIN [_tag |-> {}, aborted |-> {}, allowInsecure |-> {}, apiKey |-> {}, baseUrl |-> {},
            body |-> {}, bool |-> {}, chars |-> {}, contentType |-> {}, controller |-> {},
            credentials |-> {}, defaultTimeout |-> {}, error |-> {},
            exists |-> {}, headers |-> {}, id |-> {}, input |-> {}, kind |-> {},
            message |-> {}, method |-> {}, mode |-> {}, name |-> {},
            num |-> {}, ok |-> {}, op |-> {}, opts |-> {}, params |-> {},
            path |-> {}, present |-> {}, props |-> {}, proto |-> {}, reason |-> {},
            signal |-> {}, status |-> {}, statusText |-> {}, str |-> {},
            timeoutSignal |-> {}, typeof |-> {}, url |-> {}, value |-> {}]

VARIABLES
    clientConfig, \* the ClientConfig createAdminClient was called with
    created,     \* what createAdminClient settled with: threw, or returned
    config,      \* HttpClientConfig captured by createHttpClient
    handles,     \* caller-owned AbortSignals: [aborted, reason]
    pc,          \* per call: "idle" | "fetching" | "decoding" | "done"
    args,        \* per call: the dispatcher method's arguments
    timeoutSig,  \* per call: AbortSignal.timeout(defaultTimeout)
    ctrl,        \* per call: the composite AbortController of mergeSignals
    sent,        \* per call: the requests handed to fetch
    resp,        \* per call: the Response fetch resolved with
    outcome,     \* per call: what the returned promise settled with
    checked,     \* a value given to isApiError, and the answer once it ran
    server       \* per call: the requests of the call the server has applied

vars ==
    <<clientConfig, created, config, handles, pc, args, timeoutSig, ctrl, sent,
      resp, outcome, checked, server>>

----------------------------------------------------------------------------
(* Bounds of the model.                                                    *)

MaxCalls == 2

Calls == 1..MaxCalls

----------------------------------------------------------------------------
(* JavaScript values.                                                      *)

JSUndefined == [typeof |-> "undefined"]

JSString(s) == [str |-> s, typeof |-> "string"]

JSNumber(n) == [num |-> n, typeof |-> "number"]

\* A string value the code handles character by character.
JSChars(cs) == [chars |-> cs, typeof |-> "string"]

JSObject(props) == [props |-> props, typeof |-> "object"]

JSBoolean(b) == [bool |-> b, typeof |-> "boolean"]

\* null: typeof null is "object".
JSNull == [kind |-> "null", typeof |-> "object"]

\* A function object with own properties props.
JSFunction(props) == [props |-> props, typeof |-> "function"]

\* An object with own properties props and prototype proto.
JSObjectFrom(proto, props) == [props |-> props, proto |-> proto, typeof |-> "object"]

\* key in obj: an own property, or one of the prototype chain.
RECURSIVE HasProperty(_, _)
HasProperty(obj, key) ==
    \/ key \in DOMAIN obj.props
    \/ "proto" \in DOMAIN obj /\ HasProperty(obj.proto, key)

\* obj[key]: the own property if there is one, else the inherited one.
RECURSIVE GetProperty(_, _)
GetProperty(obj, key) ==
    IF key \in DOMAIN obj.props THEN obj.props[key]
    ELSE IF "proto" \in DOMAIN obj THEN GetProperty(obj.proto, key)
    ELSE JSUndefined

\* An optional argument or field: omitted (undefined), or given.
Absent == [present |-> FALSE]

Some(v) == [present |-> TRUE, value |-> v]

\* new DOMException / Error instances, identified by their name.
JSError(name) == JSObject([name |-> JSString(name)])

\* What fetch rejects with when the network fails (README: native TypeError).
TypeErrorValue == JSError("TypeError")

\* What response.json() rejects with when the body is no JSON text.
SyntaxErrorValue == JSError("SyntaxError")

\* The reason of AbortSignal.timeout(): a "TimeoutError" DOMException.
TimeoutReason == JSError("TimeoutError")

\* The reason of controller.abort() called without an argument.
DefaultAbortReason == JSError("AbortError")

----------------------------------------------------------------------------
(* Character strings.                                                      *)

Concat3(a, b, c) == a \o b \o c

\* String.prototype.includes: sub occurs in s as a contiguous substring.
Includes(s, sub) ==
    \E i \in 0..(Len(s) - Len(sub)) :
        \A j \in 1..Len(sub) : s[i + j] = sub[j]

\* Index of the first occurrence of character ch in s, 0 when there is none.
IndexOf(s, ch) ==
    IF \E i \in 1..Len(s) : s[i] = ch
    THEN CHOOSE i \in 1..Len(s) : s[i] = ch /\ \A j \in 1..(i - 1) : s[j] # ch
    ELSE 0

ApiPrefix == <<"/", "a", "p", "i", "/", "v", "1">>

JsonMediaType ==
    <<"a", "p", "p", "l", "i", "c", "a", "t", "i", "o", "n", "/", "j", "s", "o", "n">>

BearerPrefix == <<"B", "e", "a", "r", "e", "r", " ">>

----------------------------------------------------------------------------
(* URLSearchParams: the application/x-www-form-urlencoded serializer and   *)
(* parser of the URL standard, over the characters the model uses.         *)

Letters ==
    {"a", "b", "c", "d", "e", "f", "g", "h", "i", "j", "k", "l", "m", "n", "o",
     "p", "q", "r", "s", "t", "u", "v", "w", "x", "y", "z"}

Digits == {"0", "1", "2", "3", "4", "5", "6", "7", "8", "9"}

\* Characters the serializer leaves as they are.
FormSafe == Letters \cup Digits \cup {"*", "-", ".", "_"}

\* The two hexadecimal digits of the characters the serializer escapes.
HexOf(ch) ==
    CASE ch = "&" -> <<"2", "6">>
      [] ch = "=" -> <<"3", "D">>
      [] ch = "?" -> <<"3", "F">>
      [] ch = "%" -> <<"2", "5">>
      [] ch = "+" -> <<"2", "B">>
      [] ch = "/" -> <<"2", "F">>
      [] ch = "#" -> <<"2", "3">>

Escaped == {"&", "=", "?", "%", "+", "/", "#"}

\* A serializer that escapes nothing (the query written by concatenation).
FormEncodeCharRaw(ch) == <<ch>>

FormEncodeChar(ch) ==
    IF ch \in FormSafe THEN <<ch>>
    ELSE IF ch = " " THEN <<"+">>
    ELSE <<"%">> \o HexOf(ch)

RECURSIVE FormEncode(_)
FormEncode(s) ==
    IF s = <<>> THEN <<>> ELSE FormEncodeChar(Head(s)) \o FormEncode(Tail(s))

\* A property key that is an array index: a canonical decimal numeral.
IsIndexKey(key) ==
    /\ key # <<>>
    /\ \A i \in DOMAIN key : key[i] \in Digits
    /\ Len(key) = 1 \/ key[1] # "0"

RECURSIVE IndexValue(_)
IndexValue(key) ==
    IF key = <<>> THEN 0
    ELSE 10 * IndexValue(SubSeq(key, 1, Len(key) - 1))
         + (CHOOSE d \in 0..9 :
                <<"0", "1", "2", "3", "4", "5", "6", "7", "8", "9">>[d + 1] = key[Len(key)])

\* The own properties of an object in the order [[OwnPropertyKeys]] lists
\* them: array-index keys ascending, then the other keys as inserted. obj is
\* the list of <<key, value>> pairs in the order the caller wrote them.
OwnEntries(obj) ==
    SortSeq(SelectSeq(obj, LAMBDA p : IsIndexKey(p[1])),
            LAMBDA p, r : IndexValue(p[1]) < IndexValue(r[1]))
    \o SelectSeq(obj, LAMBDA p : ~IsIndexKey(p[1]))

\* URLSearchParams.prototype.toString for the list of <<name, value>> pairs
\* new URLSearchParams(record) holds.
RECURSIVE SearchToString(_)
SearchToString(params) ==
    IF params = <<>> THEN <<>>
    ELSE LET p == Head(params)
             one == Concat3(FormEncode(p[1]), <<"=">>, FormEncode(p[2]))
         IN IF Tail(params) = <<>> THEN one
            ELSE Concat3(one, <<"&">>, SearchToString(Tail(params)))

\* Percent-decoding with "+" read as a space, as the form parser does.
RECURSIVE FormDecode(_)
FormDecode(s) ==
    IF s = <<>> THEN <<>>
    ELSE IF Head(s) = "+" THEN <<" ">> \o FormDecode(Tail(s))
    ELSE IF /\ Head(s) = "%"
            /\ Len(s) >= 3
            /\ \E ch \in Escaped : HexOf(ch) = <<s[2], s[3]>>
         THEN <<CHOOSE ch \in Escaped : HexOf(ch) = <<s[2], s[3]>> >>
              \o FormDecode(SubSeq(s, 4, Len(s)))
    ELSE <<Head(s)>> \o FormDecode(Tail(s))

\* One name=value piece of a query string.
ParsePair(piece) ==
    LET i == IndexOf(piece, "=")
    IN IF i = 0 THEN <<FormDecode(piece), <<>> >>
       ELSE <<FormDecode(SubSeq(piece, 1, i - 1)),
              FormDecode(SubSeq(piece, i + 1, Len(piece)))>>

\* The form parser: split on "&", drop empty pieces, decode each pair.
RECURSIVE ParseQuery(_)
ParseQuery(q) ==
    IF q = <<>> THEN <<>>
    ELSE LET i == IndexOf(q, "&")
             piece == IF i = 0 THEN q ELSE SubSeq(q, 1, i - 1)
             rest == IF i = 0 THEN <<>> ELSE SubSeq(q, i + 1, Len(q))
         IN (IF piece = <<>> THEN <<>> ELSE <<ParsePair(piece)>>) \o ParseQuery(rest)

\* What the server reads from a request URL: the part before the first "?"
\* and the parsed search parameters (new URL(req.url) in the test servers).
UrlBeforeQuery(url) ==
    LET i == IndexOf(url, "?") IN IF i = 0 THEN url ELSE SubSeq(url, 1, i - 1)

UrlQuery(url) ==
    LET i == IndexOf(url, "?") IN IF i = 0 THEN <<>> ELSE SubSeq(url, i + 1, Len(url))

HasQuery(url) == IndexOf(url, "?") # 0

\* The part of a URL up to its query or fragment: what a server receives
\* as origin and path.
UrlPathname(url) ==
    LET q == IndexOf(url, "?")
        f == IndexOf(url, "#")
        cut == IF q = 0 THEN f ELSE IF f = 0 THEN q ELSE IF q < f THEN q ELSE f
    IN IF cut = 0 THEN url ELSE SubSeq(url, 1, cut - 1)

----------------------------------------------------------------------------
(* JSON texts are sequences of tokens: punctuation and string literals.    *)
(* The objects the model sends and receives are flat, with string values,  *)
(* written as lists of <<key, value>> pairs.                               *)

Punct(p) == [kind |-> "punct", value |-> p]

StrTok(s) == [kind |-> "string", value |-> s]

RECURSIVE StringifyMembers(_)
StringifyMembers(obj) ==
    IF obj = <<>> THEN <<>>
    ELSE LET m == <<StrTok(Head(obj)[1]), Punct(":"), StrTok(Head(obj)[2])>>
         IN IF Tail(obj) = <<>> THEN m
            ELSE Concat3(m, <<Punct(",")>>, StringifyMembers(Tail(obj)))

\* JSON.stringify of a flat object (its keys are no array indices, so its
\* members come in the order they were inserted).
JSONStringify(obj) == Concat3(<<Punct("{")>>, StringifyMembers(obj), <<Punct("}")>>)

\* Parses the members of an object from position i on; acc holds the pairs read.
RECURSIVE ParseMembers(_, _, _)
ParseMembers(toks, i, acc) ==
    IF /\ i + 3 <= Len(toks)
       /\ toks[i].kind = "string"
       /\ toks[i + 1] = Punct(":")
       /\ toks[i + 2].kind = "string"
    THEN LET acc2 == Append(acc, <<toks[i].value, toks[i + 2].value>>)
         IN IF toks[i + 3] = Punct("}") /\ i + 3 = Len(toks)
            THEN [ok |-> TRUE, value |-> acc2]
            ELSE IF toks[i + 3] = Punct(",")
                 THEN ParseMembers(toks, i + 4, acc2)
                 ELSE [ok |-> FALSE, value |-> <<>>]
    ELSE [ok |-> FALSE, value |-> <<>>]

\* JSON.parse: ok is FALSE where it throws a SyntaxError.
JSONParse(toks) ==
    IF Len(toks) < 2 \/ toks[1] # Punct("{") THEN [ok |-> FALSE, value |-> <<>>]
    ELSE IF Len(toks) = 2
         THEN [ok |-> toks[2] = Punct("}"), value |-> <<>>]
         ELSE ParseMembers(toks, 2, <<>>)

\* The JavaScript object a decoded JSON object is (a later duplicate key wins).
JSFromJson(obj) ==
    JSObject([key \in {obj[i][1] : i \in DOMAIN obj} |->
        LET last == CHOOSE i \in DOMAIN obj :
                        /\ obj[i][1] = key
                        /\ \A j \in DOMAIN obj : obj[j][1] = key => j <= i
        IN JSString(obj[last][2])])

----------------------------------------------------------------------------
(* src/src/http.ts: helpers.                                               *)

\* String(id) of createResource, for the identifier values of the model.
RECURSIVE NatToChars(_)
NatToChars(n) ==
    LET digit(d) == CHOOSE ch \in Digits :
                        ch = <<"0", "1", "2", "3", "4", "5", "6", "7", "8", "9">>[d + 1]
    IN IF n < 10 THEN <<digit(n)>> ELSE NatToChars(n \div 10) \o <<digit(n % 10)>>

StringOf(v) == IF v.typeof = "number" THEN NatToChars(v.num) ELSE v.chars

\* A buildUrl that always separates the query with "?".
BuildUrlAlwaysQuestion(baseUrl, path, params) ==
    LET url == Concat3(baseUrl, ApiPrefix, path)
    IN IF ~params.present THEN url
       ELSE Concat3(url, <<"?">>, SearchToString(OwnEntries(params.value)))

\* buildUrl(baseUrl, path, params): params is Absent or Some(list of pairs).
BuildUrl(baseUrl, path, params) ==
    LET url == Concat3(baseUrl, ApiPrefix, path)
    IN IF ~params.present THEN url
       ELSE LET search == SearchToString(OwnEntries(params.value))
                separator == IF Includes(url, <<"?">>) THEN <<"&">> ELSE <<"?">>
            IN Concat3(url, separator, search)

\* A fresh, not yet aborted AbortSignal.
NewSignal == [aborted |-> FALSE, reason |-> JSUndefined]

\* An abort that leaves the signal as it was.
ControllerAbortIgnored(signal, reason) == signal

\* controller.abort(reason) on the controller's signal (DOM "signal abort":
\* nothing happens when the signal is already aborted).
ControllerAbort(signal, reason) ==
    IF signal.aborted THEN signal ELSE [aborted |-> TRUE, reason |-> reason]

\* A listener that lets a caller's reason replace the timeout's.
OnAbortCallerWins(signal, sourceReason) ==
    IF ~signal.aborted \/ sourceReason # TimeoutReason
    THEN [aborted |-> TRUE, reason |-> sourceReason]
    ELSE signal

\* A listener that is not attached to the timeout signal.
OnAbortIgnoresTimeout(signal, sourceReason) ==
    IF ~signal.aborted /\ sourceReason # TimeoutReason
    THEN ControllerAbort(signal, sourceReason)
    ELSE signal

\* The listener onAbort(source) of mergeSignals, run when source fires.
OnAbort(signal, sourceReason) ==
    IF ~signal.aborted THEN ControllerAbort(signal, sourceReason) ELSE signal

NoController == [exists |-> FALSE, signal |-> NewSignal]

\* A call made without mergeSignals: the timeout signal is never created.
NoSignals == [controller |-> NoController, timeoutSignal |-> NewSignal]

\* mergeSignals without its check of an already aborted caller signal.
MergeSignalsNoPropagate(opts) ==
    [controller |-> IF opts = "none" THEN NoController
                    ELSE [exists |-> TRUE, signal |-> NewSignal],
     timeoutSignal |-> NewSignal]

\* A mergeSignals that wraps the timeout signal in a controller even when
\* the caller gave no signal.
MergeSignalsAlwaysWraps(opts) ==
    [controller |->
        [exists |-> TRUE,
         signal |-> IF opts # "none" /\ handles[opts].aborted
                    THEN ControllerAbort(NewSignal, handles[opts].reason)
                    ELSE NewSignal],
     timeoutSignal |-> NewSignal]

\* mergeSignals(defaultTimeout, opts): the timeout signal it creates and the
\* composite controller, if any. opts is "none" or the caller's handle.
MergeSignals(opts) ==
    [controller |->
        IF opts = "none" THEN NoController
        ELSE [exists |-> TRUE,
              signal |-> IF handles[opts].aborted
                         THEN ControllerAbort(NewSignal, handles[opts].reason)
                         ELSE NewSignal],
     timeoutSignal |-> NewSignal]

\* The signal mergeSignals returns, given the two it built.
MergedSignal(timeoutSignal, controller) ==
    IF controller.exists THEN controller.signal ELSE timeoutSignal

CreateApiError(status, message, body) ==
    JSObject([_tag |-> JSString("ApiError"),
              body |-> body,
              message |-> JSString(message),
              status |-> JSNumber(status)])

\* An isApiError without the typeof test.
IsApiErrorLoose(err) ==
    /\ "props" \in DOMAIN err
    /\ HasProperty(err, "_tag")
    /\ GetProperty(err, "_tag") = JSString("ApiError")

\* isApiError of src/src/types.
IsApiError(err) ==
    /\ err.typeof = "object"
    /\ err # JSNull
    /\ HasProperty(err, "_tag")
    /\ GetProperty(err, "_tag") = JSString("ApiError")

\* response.ok
IsOk(response) == response.status >= 200 /\ response.status <= 299

\* A content-type test by equality instead of substring.
IsJsonResponseExact(response) ==
    response.contentType.present /\ response.contentType.value = JsonMediaType

IsJsonResponse(response) ==
    LET ct == response.contentType
    IN ct.present /\ Includes(ct.value, JsonMediaType)

\* What a handler does next: settle the call, or await response.json().
Throw(v) == [kind |-> "throw", value |-> v]

Return(v) == [kind |-> "return", value |-> v]

AwaitJson(then) == [kind |-> "await", value |-> JSString(then)]

Pending == [kind |-> "pending", value |-> JSUndefined]

\* A handleResponse that decodes every 2xx body, whatever its content kind.
HandleResponseLenient(response) ==
    IF ~IsOk(response)
    THEN IF IsJsonResponse(response)
         THEN AwaitJson("throwApiError")
         ELSE Throw(CreateApiError(response.status, response.statusText, JSUndefined))
    ELSE AwaitJson("returnValue")

\* handleResponse up to its first await.
HandleResponse(response) ==
    IF ~IsOk(response)
    THEN IF IsJsonResponse(response)
         THEN AwaitJson("throwApiError")
         ELSE Throw(CreateApiError(response.status, response.statusText, JSUndefined))
    ELSE IF ~IsJsonResponse(response)
         THEN Throw(CreateApiError(response.status, response.statusText, JSUndefined))
         ELSE AwaitJson("returnValue")

\* A handleVoidResponse that requires a JSON content kind on success.
HandleVoidResponseStrict(response) ==
    IF ~IsOk(response)
    THEN IF IsJsonResponse(response)
         THEN AwaitJson("throwApiError")
         ELSE Throw(CreateApiError(response.status, response.statusText, JSUndefined))
    ELSE IF ~IsJsonResponse(response)
         THEN Throw(CreateApiError(response.status, response.statusText, JSUndefined))
         ELSE Return(JSUndefined)

\* handleVoidResponse up to its first await.
HandleVoidResponse(response) ==
    IF ~IsOk(response)
    THEN IF IsJsonResponse(response)
         THEN AwaitJson("throwApiError")
         ELSE Throw(CreateApiError(response.status, response.statusText, JSUndefined))
    ELSE Return(JSUndefined)

\* The handler resumed after response.json() settled: parsed is JSONParse's
\* result for the body text.
AfterJson(response, then, parsed) ==
    IF ~parsed.ok THEN Throw(SyntaxErrorValue)
    ELSE IF then = "throwApiError"
         THEN Throw(CreateApiError(response.status, response.statusText,
                                   JSFromJson(parsed.value)))
         ELSE Return(JSFromJson(parsed.value))

\* A dispatcher that wraps transport failures in an ApiError of its own.
AwaitFetchRejectedWrapped(reason) == Throw(CreateApiError(0, "Network Error", reason))

\* A dispatcher that catches a rejection of fetch and resolves to nothing.
AwaitFetchRejectedSwallowed(reason) == Return(JSUndefined)

\* await fetch(...) rejected: no handler catches it, the method's promise
\* rejects with the same value.
AwaitFetchRejected(reason) == Throw(reason)

\* A headers() over one header object shared by all dispatchers, which
\* keeps the Authorization an earlier dispatcher wrote into it.
HeadersShared ==
    LET earlier == {c \in Calls : sent[c] # <<>> /\ "Authorization" \in DOMAIN sent[c][1].headers}
        names == IF config.apiKey.present \/ earlier # {}
                 THEN {"Content-Type", "Authorization"}
                 ELSE {"Content-Type"}
    IN [h \in names |->
          IF h = "Content-Type" THEN JsonMediaType
          ELSE IF config.apiKey.present THEN BearerPrefix \o config.apiKey.value
          ELSE sent[CHOOSE c \in earlier : TRUE][1].headers["Authorization"]]

\* headers() of createHttpClient.
Headers ==
    LET names == IF config.apiKey.present /\ config.apiKey.value # <<>>
                 THEN {"Content-Type", "Authorization"}
                 ELSE {"Content-Type"}
    IN [h \in names |-> IF h = "Content-Type"
                        THEN JsonMediaType
                        ELSE BearerPrefix \o config.apiKey.value]

\* The arguments the four JSON methods pass to fetch, with the handler the
\* response goes to (mode) and the signal option given to mergeSignals.
HttpGet(path, params, opts) ==
    [body |-> Absent, credentials |-> config.credentials,
     headers |-> Headers, method |-> "GET",
     mode |-> "decode", opts |-> opts, url |-> BuildUrl(config.baseUrl, path, params)]

\* A post that serializes an empty object when no body is given.
HttpPostAlwaysBody(path, body, opts) ==
    [body |-> Some(JSONStringify(IF body.present THEN body.value ELSE <<>>)),
     credentials |-> config.credentials, headers |-> Headers, method |-> "POST",
     mode |-> "decode", opts |-> opts, url |-> BuildUrl(config.baseUrl, path, Absent)]

HttpPost(path, body, opts) ==
    [body |-> IF body.present THEN Some(JSONStringify(body.value)) ELSE Absent, credentials |-> config.credentials,
     headers |-> Headers, method |-> "POST",
     mode |-> "decode",
     opts |-> opts, url |-> BuildUrl(config.baseUrl, path, Absent)]

HttpPut(path, body, opts) ==
    [body |-> IF body.present THEN Some(JSONStringify(body.value)) ELSE Absent, credentials |-> config.credentials,
     headers |-> Headers, method |-> "PUT",
     mode |-> "decode",
     opts |-> opts, url |-> BuildUrl(config.baseUrl, path, Absent)]

HttpDel(path, params, opts) ==
    [body |-> Absent, credentials |-> config.credentials,
     headers |-> Headers, method |-> "DELETE",
     mode |-> "void", opts |-> opts, url |-> BuildUrl(config.baseUrl, path, params)]

\* raw(path, init): the caller's init goes to fetch as it is; no call of
\* headers() or mergeSignals, and no handler for the response.
HttpRaw(path, init) ==
    [body |-> init.body, credentials |-> init.credentials,
     headers |-> init.headers, method |-> init.method,
     mode |-> "raw", opts |-> "none", url |-> Concat3(config.baseUrl, ApiPrefix, path)]

----------------------------------------------------------------------------
(* src/unnamed/part_006: createAuthResource.                               *)

LogoutPath == <<"/", "a", "u", "t", "h", "/", "l", "o", "g", "o", "u", "t">>

\* A logout that goes through the dispatcher's void handler.
AuthLogoutVoid(opts) ==
    [body |-> Absent, credentials |-> config.credentials,
     headers |-> Headers, method |-> "POST",
     mode |-> "void", opts |-> opts, url |-> BuildUrl(config.baseUrl, LogoutPath, Absent)]

\* logout(opts): await http.post('/auth/logout', undefined, opts)
AuthLogout(opts) == HttpPost(LogoutPath, Absent, opts)

\* What the method of operation op settles with, given what the
\* dispatcher's promise settled with: logout awaits it and returns nothing.
Delivered(op, step) ==
    IF op = "logout" /\ step.kind = "return" THEN Return(JSUndefined) ELSE step

----------------------------------------------------------------------------
(* src/src/resources/ssh-keys.ts: createSshKeysResource.                   *)

SshKeysPath == <<"/", "s", "s", "h", "-", "k", "e", "y", "s", "/">>

\* remove(id, opts): http.del(`/ssh-keys/${id}`, undefined, opts)
SshKeysRemove(id, opts) == HttpDel(SshKeysPath \o StringOf(id), Absent, opts)

----------------------------------------------------------------------------
(* src/src/resources/media-upload.ts: createMediaUploadResource.           *)

UploadPath == <<"/", "m", "e", "d", "i", "a", "u", "p", "l", "o", "a", "d", "/">>

\* new FormData() with the file appended.
FormData == <<Punct("form-data")>>

\* The headers upload builds: an Authorization when the key is truthy, and
\* no Content-Type.
UploadHeaders ==
    LET names == IF config.apiKey.present /\ config.apiKey.value # <<>>
                 THEN {"Authorization"}
                 ELSE {}
    IN [h \in names |-> BearerPrefix \o config.apiKey.value]

\* An upload whose listener lets the timeout's reason replace the one its
\* controller was aborted with.
UploadOnAbortLastWins(signal, sourceReason) ==
    [aborted |-> TRUE, reason |-> sourceReason]

\* The listener onAbort(source) that upload declares, run when source fires.
UploadOnAbort(signal, sourceReason) ==
    IF ~signal.aborted THEN ControllerAbort(signal, sourceReason) ELSE signal

\* The signal upload composes: with a caller signal, a new controller that
\* is aborted at once when the caller's signal already is; without one, the
\* timeout signal alone.
UploadSignals(opts) ==
    IF opts # "none"
    THEN [controller |->
             [exists |-> TRUE,
              signal |-> IF handles[opts].aborted
                         THEN ControllerAbort(NewSignal, handles[opts].reason)
                         ELSE NewSignal],
          timeoutSignal |-> NewSignal]
    ELSE [controller |-> NoController, timeoutSignal |-> NewSignal]

\* An upload that leaves the credentials mode to fetch's default.
UploadDefaultCredentials(opts) ==
    [body |-> Some(FormData), credentials |-> "same-origin",
     headers |-> UploadHeaders, method |-> "POST",
     mode |-> "upload", opts |-> opts, url |-> Concat3(config.baseUrl, ApiPrefix, UploadPath)]

\* upload(file, opts): the init it hands to http.raw, and raw's URL.
Upload(opts) ==
    [body |-> Some(FormData), credentials |-> config.credentials,
     headers |-> UploadHeaders, method |-> "POST",
     mode |-> "upload", opts |-> opts, url |-> Concat3(config.baseUrl, ApiPrefix, UploadPath)]

\* upload after http.raw resolved, up to its first await.
UploadResponse(response) ==
    IF ~IsOk(response)
    THEN IF response.contentType.present /\ Includes(response.contentType.value, JsonMediaType)
         THEN AwaitJson("throwApiError")
         ELSE Throw(CreateApiError(response.status, response.statusText, JSUndefined))
    ELSE AwaitJson("returnValue")

----------------------------------------------------------------------------
(* resource.ts: createResource(http, path).                                *)

Q == <<"q">>

ResourceList(path, opts) == HttpGet(<<"/">> \o path, Absent, opts)

ResourceGet(path, id, opts) ==
    HttpGet(Concat3(<<"/">>, path, <<"/">>), Some(<< <<Q, StringOf(id)>> >>), opts)

ResourceCreate(path, params, opts) == HttpPost(<<"/">> \o path, Some(params), opts)

\* update without the trailing slash of its path.
ResourceUpdateNoSlash(path, params, opts) == HttpPut(<<"/">> \o path, Some(params), opts)

ResourceUpdate(path, params, opts) ==
    HttpPut(Concat3(<<"/">>, path, <<"/">>), Some(params), opts)

ResourceRemove(path, id, opts) ==
    HttpDel(Concat3(<<"/">>, path, <<"/">>), Some(<< <<Q, StringOf(id)>> >>), opts)

----------------------------------------------------------------------------
(* src/src/index.ts: createAdminClient(config).                            *)

\* index.ts: config.defaultTimeout ?? 30000
DefaultTimeout == 30000

Capitals == {"H", "T", "P", "S"}

\* ASCII lowercase of a character, as the URL parser applies it to a scheme.
ToLower(ch) ==
    CASE ch = "H" -> "h"
      [] ch = "T" -> "t"
      [] ch = "P" -> "p"
      [] ch = "S" -> "s"
      [] OTHER -> ch

\* The scheme of an absolute URL string, lowercased; <<>> when the string
\* does not start with a scheme (URL standard, scheme start / scheme state).
UrlScheme(input) ==
    LET i == IndexOf(input, ":")
    IN IF /\ i > 1
          /\ input[1] \in Letters \cup Capitals
          /\ \A j \in 1..(i - 1) :
                 input[j] \in Letters \cup Capitals \cup Digits \cup {"+", "-", "."}
       THEN [j \in 1..(i - 1) |-> ToLower(input[j])]
       ELSE <<>>

\* The special schemes that need a host.
HostSchemes ==
    {<<"h", "t", "t", "p">>, <<"h", "t", "t", "p", "s">>, <<"w", "s">>,
     <<"w", "s", "s">>, <<"f", "t", "p">>}

\* What follows the scheme's colon and the slashes after it.
RECURSIVE DropSlashes(_)
DropSlashes(s) ==
    IF s # <<>> /\ Head(s) = "/" THEN DropSlashes(Tail(s)) ELSE s

\* new URL(input) does not throw: the input has a scheme, and a host where
\* its scheme needs one.
UrlParses(input) ==
    LET scheme == UrlScheme(input)
    IN /\ scheme # <<>>
       /\ scheme \in HostSchemes =>
              DropSlashes(SubSeq(input, Len(scheme) + 2, Len(input))) # <<>>

\* The schemes fetch sends over the network; any other URL is a network error.
FetchSchemes == {<<"h", "t", "t", "p">>, <<"h", "t", "t", "p", "s">>}

\* parsed.protocol
UrlProtocol(input) == UrlScheme(input) \o <<":">>

\* config.baseUrl.replace(/\/+$/, '')
RECURSIVE StripTrailingSlashes(_)
StripTrailingSlashes(s) ==
    IF s # <<>> /\ s[Len(s)] = "/"
    THEN StripTrailingSlashes(SubSeq(s, 1, Len(s) - 1))
    ELSE s

\* new Error(message)
ErrorValue(message) == JSObject([message |-> JSString(message), name |-> JSString("Error")])

\* createAdminClient(config) up to its call of createHttpClient: the Error
\* it throws, or the HttpClientConfig it builds the dispatcher with.
CreateAdminClient(cc) ==
    IF ~UrlParses(cc.baseUrl) THEN Throw(ErrorValue("Invalid baseUrl"))
    ELSE IF /\ UrlProtocol(cc.baseUrl) = <<"h", "t", "t", "p", ":">>
            /\ cc.allowInsecure # Some(TRUE)
    THEN Throw(ErrorValue("baseUrl uses http://"))
    ELSE IF cc.apiKey.present /\ cc.apiKey.value = <<>>
    THEN Throw(ErrorValue("apiKey must not be an empty string"))
    ELSE Return([apiKey |-> cc.apiKey,
                 baseUrl |-> StripTrailingSlashes(cc.baseUrl),
                 credentials |-> IF cc.credentials.present THEN cc.credentials.value
                                 ELSE "include",
                 defaultTimeout |-> IF cc.defaultTimeout.present
                                    THEN cc.defaultTimeout.value ELSE DefaultTimeout])

----------------------------------------------------------------------------
(* Inputs of the model.                                                    *)

Origin == <<"h", "t", "t", "p", "s", ":", "/", "/", "c", "m", "s">>

ApiKey == <<"s", "k", "_", "1">>

Configs ==
    {[apiKey |-> k, baseUrl |-> Origin, credentials |-> cr,
      defaultTimeout |-> DefaultTimeout] : k \in {Absent, Some(ApiKey)}, cr \in {"include", "omit"}}

Handles == {"h1", "h2"}

\* What a caller passes to controller.abort(): nothing, or a reason of its own.
Reasons == {DefaultAbortReason, JSString("user cancelled")}

Users == <<"u", "s", "e", "r", "s">>

Media == <<"m", "e", "d", "i", "a">>

Paths == {Users, Media}

Ids ==
    {JSChars(<<"a", "b", "c", "-", "1", "2", "3">>),
     JSChars(<<"a", " ", "&", "=", "b">>),
     JSChars(<<"+", "%", "?", "/", "#">>),
     JSChars(<<"0", "0", "7">>),
     JSChars(<<>>),
     JSNumber(42)}

ParamObjects ==
    {<< <<"name", "Alpha">> >>,
     << <<"id", "1">>, <<"name", "Beta">> >>}

StatusText(status) ==
    CASE status = 200 -> "OK"
      [] status = 204 -> "No Content"
      [] status = 404 -> "Not Found"
      [] status = 500 -> "Internal Server Error"

Statuses == {200, 204, 404, 500}

JsonUtf8 == JsonMediaType \o <<";", " ", "c", "h", "a", "r", "s", "e", "t", "=", "u", "t", "f", "-", "8">>

TextPlain == <<"t", "e", "x", "t", "/", "p", "l", "a", "i", "n">>

ContentTypes == {Absent, Some(JsonMediaType), Some(JsonUtf8), Some(TextPlain)}

\* Body texts: two JSON objects, a text that is no JSON, and no body at all.
Bodies ==
    {JSONStringify(<< <<"error", "not_found">> >>),
     JSONStringify(<< <<"id", "1">>, <<"name", "Alpha">> >>),
     <<Punct("<html>")>>,
     <<>>}

Response(status, ct, body) ==
    [body |-> body, contentType |-> ct, status |-> status, statusText |-> StatusText(status)]

Responses == {Response(st, ct, b) : st \in Statuses, ct \in ContentTypes, b \in Bodies}

\* Paths given to the dispatcher's own methods: plain, and holding a query.
PlainPath == <<"/">> \o Users

QueryPath == <<"/", "s", "?", "x", "=", "1">>

DirectPaths == {PlainPath, QueryPath}

\* Parameter maps, as lists of <<key, value>> in the order of insertion:
\* empty, reserved characters, an empty value, and array-index keys
\* inserted after another key.
QueryMaps ==
    {<<>>,
     << <<Q, <<"a", " ", "&", "=", "b">> >> >>,
     << <<Q, <<>> >>, << <<"p">>, <<"+", "%", "?", "/", "#">> >> >>,
     << <<<<"b">>, <<"1">> >>, << <<"a">>, <<"2">> >> >>,
     << <<<<"b">>, <<"1">> >>, << <<"1", "0">>, <<"x">> >>, << <<"2">>, <<"y">> >> >>}

\* The optional params argument of get and del.
Queries == {Absent} \cup {Some(m) : m \in QueryMaps}

\* The optional body argument of post and put.
OptionalBodies == {Absent} \cup {Some(x) : x \in ParamObjects} \cup {Some(<<>>)}

\* RequestInit objects a caller gives to raw.
RawInits ==
    {[body |-> Absent, credentials |-> "same-origin", headers |-> <<>>, method |-> "GET"],
     [body |-> Some(FormData), credentials |-> "include", headers |-> <<>>, method |-> "POST"],
     [body |-> Some(FormData), credentials |-> "include",
      headers |-> [h \in {"X-Trace"} |-> <<"1">>], method |-> "POST"]}

OtherKey == <<"s", "k", "_", "2">>

\* ClientConfigs that differ in the credential: none, two keys, and the
\* empty key.
KeyConfigs ==
    {[allowInsecure |-> Absent, apiKey |-> k, baseUrl |-> Origin,
      credentials |-> Absent, defaultTimeout |-> Absent] :
        k \in {Absent, Some(ApiKey), Some(OtherKey), Some(<<>>)}}

\* A 200 response with a JSON body.
OkResponse ==
    Response(200, Some(JsonMediaType), JSONStringify(<< <<"id", "1">>, <<"name", "Alpha">> >>))

\* Values of a _tag property: the sentinel, near misses, and other types.
TagValues ==
    {JSString("ApiError"), JSString("apierror"), JSString("APIERROR"),
     JSString(" ApiError"), JSString("ApiError "), JSString("Error"), JSString(""),
     JSNumber(0), JSBoolean(TRUE), JSUndefined, JSNull,
     JSObject([value |-> JSString("ApiError")])}

\* Own properties: a _tag alone, a _tag with the other ApiError fields, and
\* the other fields without a _tag.
OwnProps ==
    {[_tag |-> t] : t \in TagValues}
    \cup {[_tag |-> t, body |-> JSUndefined, message |-> JSString("Not Found"),
           status |-> JSNumber(404)] : t \in TagValues}
    \cup {[message |-> JSString("Not Found"), status |-> JSNumber(404)]}

Prototypes == {JSObject([_tag |-> JSString("ApiError")]), JSObject([_tag |-> JSString("Error")])}

\* The values given to isApiError.
GuardValues ==
    {JSUndefined, JSNull, JSBoolean(TRUE), JSNumber(0), JSNumber(404),
     JSString("ApiError"), JSString("")}
    \cup {JSObject(p) : p \in OwnProps}
    \cup {JSObjectFrom(proto, p) : proto \in Prototypes, p \in OwnProps}
    \cup {JSFunction(p) : p \in OwnProps}

\* Base URLs: https and http in either case, other schemes, a host and port
\* without a scheme (which parses, with the host as its scheme), and inputs
\* that do not parse.
BaseUrls ==
    {Origin,
     Origin \o <<"/">>,
     <<"H", "T", "T", "P", "S", ":", "/", "/", "c", "m", "s">>,
     <<"h", "t", "t", "p", ":", "/", "/", "c", "m", "s">>,
     <<"H", "t", "t", "p", ":", "/", "/", "c", "m", "s">>,
     <<"f", "t", "p", ":", "/", "/", "c", "m", "s">>,
     <<"w", "s", ":", "/", "/", "c", "m", "s">>,
     <<"c", "m", "s", ":", "8", "0">>,
     <<"c", "m", "s">>,
     <<"/", "c", "m", "s">>,
     <<"h", "t", "t", "p", "s", ":", "/", "/">>,
     <<>>}

\* Client configurations that differ in baseUrl, allowInsecure and apiKey.
UrlConfigs ==
    {[allowInsecure |-> a, apiKey |-> k, baseUrl |-> u,
      credentials |-> Absent, defaultTimeout |-> Absent] :
        a \in {Absent, Some(FALSE), Some(TRUE)}, k \in {Absent, Some(ApiKey), Some(<<>>)},
        u \in BaseUrls}

\* One response of each kind the handlers tell apart.
FewResponses ==
    {Response(200, Some(JsonMediaType), JSONStringify(<< <<"id", "1">>, <<"name", "Alpha">> >>)),
     Response(200, Some(JsonMediaType), <<>>),
     Response(204, Absent, <<>>),
     Response(404, Some(JsonUtf8), JSONStringify(<< <<"error", "not_found">> >>)),
     Response(500, Some(TextPlain), <<Punct("<html>")>>)}

----------------------------------------------------------------------------
(* The state machine.                                                      *)

NoArgs == [id |-> JSUndefined, input |-> Absent, op |-> "none", opts |-> "none", params |-> <<>>, path |-> <<>>]

NoFetch ==
    [body |-> Absent, credentials |-> "", headers |-> <<>>, method |-> "NONE",
     mode |-> "decode", opts |-> "none", url |-> <<>>]

\* No value was given to isApiError yet.
NotChecked == <<JSUndefined, Absent>>

\* No call was issued yet.
NoCalls ==
    /\ handles = [h \in Handles |-> NewSignal]
    /\ pc = [c \in Calls |-> "idle"]
    /\ args = [c \in Calls |-> NoArgs]
    /\ timeoutSig = [c \in Calls |-> NewSignal]
    /\ ctrl = [c \in Calls |-> NoController]
    /\ sent = [c \in Calls |-> <<>>]
    /\ resp = [c \in Calls |-> Absent]
    /\ outcome = [c \in Calls |-> Pending]
    /\ server = [c \in Calls |-> <<>>]

\* A ClientConfig that createAdminClient turns into the HttpClientConfig cfg.
ClientConfigOf(cfg) ==
    [allowInsecure |-> Absent, apiKey |-> cfg.apiKey, baseUrl |-> cfg.baseUrl,
     credentials |-> Some(cfg.credentials), defaultTimeout |-> Some(cfg.defaultTimeout)]

\* The state after createAdminClient returned a client with dispatcher
\* configuration cfg.
InitWith(cfgs) ==
    /\ config \in cfgs
    /\ clientConfig = ClientConfigOf(config)
    /\ created = Return(config)
    /\ checked = NotChecked
    /\ NoCalls

NoClientConfig ==
    [allowInsecure |-> Absent, apiKey |-> Absent, baseUrl |-> <<>>,
     credentials |-> Absent, defaultTimeout |-> Absent]

NoConfig == [apiKey |-> Absent, baseUrl |-> <<>>, credentials |-> "", defaultTimeout |-> 0]

\* The state before createAdminClient is called.
InitNoClient ==
    /\ clientConfig = NoClientConfig
    /\ created = Pending
    /\ config = NoConfig
    /\ checked = NotChecked
    /\ NoCalls

\* createAdminClient(cc) called: it throws, and the caller has no client, or
\* it returns a client whose dispatcher captured the configuration it built.
Construct(ccs) ==
    \E cc \in ccs :
        LET r == CreateAdminClient(cc)
        IN /\ clientConfig' = cc
           /\ created' = r
           /\ config' = IF r.kind = "return" THEN r.value ELSE NoConfig
           /\ UNCHANGED <<handles, pc, args, timeoutSig, ctrl, sent, resp, outcome, checked, server>>

\* The fetch arguments of the operation a call's arguments name.
Dispatch(a) ==
    CASE a.op = "list" -> ResourceList(a.path, a.opts)
      [] a.op = "get" -> ResourceGet(a.path, a.id, a.opts)
      [] a.op = "create" -> ResourceCreate(a.path, a.params, a.opts)
      [] a.op = "update" -> ResourceUpdate(a.path, a.params, a.opts)
      [] a.op = "remove" -> ResourceRemove(a.path, a.id, a.opts)
      [] a.op = "http.get" -> HttpGet(a.path, a.input, a.opts)
      [] a.op = "http.post" -> HttpPost(a.path, a.input, a.opts)
      [] a.op = "http.put" -> HttpPut(a.path, a.input, a.opts)
      [] a.op = "http.del" -> HttpDel(a.path, a.input, a.opts)
      [] a.op = "http.raw" -> HttpRaw(a.path, a.input.value)
      [] a.op = "upload" -> Upload(a.opts)
      [] a.op = "logout" -> AuthLogout(a.opts)
      [] a.op = "sshKeys.remove" -> SshKeysRemove(a.id, a.opts)
      [] OTHER -> NoFetch

\* The request the server receives for fetch(url, init).
Request(init) ==
    [body |-> init.body, credentials |-> init.credentials, headers |-> init.headers,
     method |-> init.method, url |-> init.url]

\* The signal in effect for call c.
\* The abort listener call c attached to its sources: the one upload
\* declares, or the one of mergeSignals.
Listener(c, signal, sourceReason) ==
    IF args[c].op = "upload"
    THEN UploadOnAbort(signal, sourceReason)
    ELSE OnAbort(signal, sourceReason)

EffectiveSignal(c) == MergedSignal(timeoutSig[c], ctrl[c])

InFlight(c) == pc[c] \in {"fetching", "decoding"}

\* A dispatcher method called: it builds the URL, the headers and the merged
\* signal and calls fetch, which rejects at once, with no request made, when
\* the signal is already aborted.
Issue(c, a) ==
    LET init == Dispatch(a)
        m == CASE init.mode = "raw" -> NoSignals
               [] init.mode = "upload" -> UploadSignals(init.opts)
               [] OTHER -> MergeSignals(init.opts)
        signal == MergedSignal(m.timeoutSignal, m.controller)
    IN /\ created.kind = "return"
       /\ pc[c] = "idle"
       /\ \A d \in Calls : d < c => pc[d] # "idle"
       /\ args' = [args EXCEPT ![c] = a]
       /\ timeoutSig' = [timeoutSig EXCEPT ![c] = m.timeoutSignal]
       /\ ctrl' = [ctrl EXCEPT ![c] = m.controller]
       /\ IF signal.aborted
          THEN /\ pc' = [pc EXCEPT ![c] = "done"]
               /\ outcome' = [outcome EXCEPT ![c] = AwaitFetchRejected(signal.reason)]
               /\ sent' = sent
          ELSE /\ pc' = [pc EXCEPT ![c] = "fetching"]
               /\ outcome' = outcome
               /\ sent' = [sent EXCEPT ![c] = Append(@, Request(init))]
       /\ UNCHANGED <<clientConfig, created, checked, config, server, handles, resp>>

List(c, ps, hs) ==
    \E p \in ps, o \in hs :
        Issue(c, [id |-> JSUndefined, input |-> Absent, op |-> "list", opts |-> o, params |-> <<>>, path |-> p])

Get(c, ps, ids, hs) ==
    \E p \in ps, id \in ids, o \in hs :
        Issue(c, [id |-> id, input |-> Absent, op |-> "get", opts |-> o, params |-> <<>>, path |-> p])

Create(c, ps, xs, hs) ==
    \E p \in ps, x \in xs, o \in hs :
        Issue(c, [id |-> JSUndefined, input |-> Absent, op |-> "create", opts |-> o, params |-> x, path |-> p])

Update(c, ps, xs, hs) ==
    \E p \in ps, x \in xs, o \in hs :
        Issue(c, [id |-> JSUndefined, input |-> Absent, op |-> "update", opts |-> o, params |-> x, path |-> p])

Remove(c, ps, ids, hs) ==
    \E p \in ps, id \in ids, o \in hs :
        Issue(c, [id |-> id, input |-> Absent, op |-> "remove", opts |-> o, params |-> <<>>, path |-> p])

\* The dispatcher's own methods, called with a path, the optional query
\* parameters or body, and the options.
GetCall(c, ps, qs, hs) ==
    \E p \in ps, q \in qs, o \in hs :
        Issue(c, [id |-> JSUndefined, input |-> q, op |-> "http.get", opts |-> o, params |-> <<>>, path |-> p])

PostCall(c, ps, bs, hs) ==
    \E p \in ps, b \in bs, o \in hs :
        Issue(c, [id |-> JSUndefined, input |-> b, op |-> "http.post", opts |-> o, params |-> <<>>, path |-> p])

PutCall(c, ps, bs, hs) ==
    \E p \in ps, b \in bs, o \in hs :
        Issue(c, [id |-> JSUndefined, input |-> b, op |-> "http.put", opts |-> o, params |-> <<>>, path |-> p])

DelCall(c, ps, qs, hs) ==
    \E p \in ps, q \in qs, o \in hs :
        Issue(c, [id |-> JSUndefined, input |-> q, op |-> "http.del", opts |-> o, params |-> <<>>, path |-> p])

RawCall(c, ps, inits) ==
    \E p \in ps, i \in inits :
        Issue(c, [id |-> JSUndefined, input |-> Some(i), op |-> "http.raw", opts |-> "none", params |-> <<>>, path |-> p])

\* raw wrapping a non-2xx response like the JSON methods do.
UploadCall(c, hs) ==
    \E o \in hs :
        Issue(c, [id |-> JSUndefined, input |-> Absent, op |-> "upload", opts |-> o, params |-> <<>>, path |-> UploadPath])

SshRemove(c, ids, hs) ==
    \E id \in ids, o \in hs :
        Issue(c, [id |-> id, input |-> Absent, op |-> "sshKeys.remove", opts |-> o, params |-> <<>>, path |-> SshKeysPath])

Logout(c, hs) ==
    \E o \in hs :
        Issue(c, [id |-> JSUndefined, input |-> Absent, op |-> "logout", opts |-> o, params |-> <<>>, path |-> LogoutPath])

RawResponseChecked(response) ==
    IF ~IsOk(response)
    THEN Throw(CreateApiError(response.status, response.statusText, JSUndefined))
    ELSE Return(JSObject(response))

\* return fetch(url, init) of raw: the Response object itself.
RawResponse(response) == Return(JSObject(response))

\* The handler a method passes its response to.
Interpret(mode, response) ==
    CASE mode = "void" -> HandleVoidResponse(response)
      [] mode = "raw" -> RawResponse(response)
      [] mode = "upload" -> UploadResponse(response)
      [] OTHER -> HandleResponse(response)

\* fetch resolves with a response; the method resumes and runs its handler
\* up to the handler's await of response.json(), if it has one.
\* A dispatcher that hands out responses in the order of the calls.
RespondInOrder(c, rs) ==
    \E r \in rs :
        LET step == Interpret(Dispatch(args[c]).mode, r)
        IN /\ pc[c] = "fetching"
           /\ \A d \in Calls : d < c => pc[d] = "done"
           /\ UrlScheme(sent[c][Len(sent[c])].url) \in FetchSchemes
           /\ resp' = [resp EXCEPT ![c] = Some(r)]
           /\ server' = [server EXCEPT ![c] = sent[c]]
           /\ IF step.kind = "await"
              THEN /\ pc' = [pc EXCEPT ![c] = "decoding"]
                   /\ outcome' = outcome
              ELSE /\ pc' = [pc EXCEPT ![c] = "done"]
                   /\ outcome' = [outcome EXCEPT ![c] = Delivered(args[c].op, step)]
           /\ UNCHANGED <<clientConfig, created, checked, config, handles, args, timeoutSig, ctrl, sent>>

Respond(c, rs) ==
    \E r \in rs :
        LET step == Interpret(Dispatch(args[c]).mode, r)
        IN /\ pc[c] = "fetching"
           /\ UrlScheme(sent[c][Len(sent[c])].url) \in FetchSchemes
           /\ resp' = [resp EXCEPT ![c] = Some(r)]
           /\ server' = [server EXCEPT ![c] = sent[c]]
           /\ IF step.kind = "await"
              THEN /\ pc' = [pc EXCEPT ![c] = "decoding"]
                   /\ outcome' = outcome
              ELSE /\ pc' = [pc EXCEPT ![c] = "done"]
                   /\ outcome' = [outcome EXCEPT ![c] = Delivered(args[c].op, step)]
           /\ UNCHANGED <<clientConfig, created, checked, config, handles, args, timeoutSig, ctrl, sent>>

\* response.json() settles with the body read to its end; the handler resumes.
BodyRead(c) ==
    LET r == resp[c].value
        then == Interpret(Dispatch(args[c]).mode, r).value.str
    IN /\ pc[c] = "decoding"
       /\ pc' = [pc EXCEPT ![c] = "done"]
       /\ outcome' = [outcome EXCEPT ![c] =
                         Delivered(args[c].op, AfterJson(r, then, JSONParse(r.body)))]
       /\ UNCHANGED <<clientConfig, created, checked, config, server, handles, args, timeoutSig, ctrl, sent, resp>>

\* The transport fails: fetch, or the body read, rejects with a TypeError.
\* A server that drops the request of a call that has been cancelled.
ServerApplyUnlessCancelled(c) ==
    /\ Len(server[c]) < Len(sent[c])
    /\ ~EffectiveSignal(c).aborted
    /\ server' = [server EXCEPT ![c] = Append(@, sent[c][Len(@) + 1])]
    /\ UNCHANGED <<clientConfig, created, checked, config, handles, pc, args, timeoutSig,
                   ctrl, sent, resp, outcome>>

\* The server applies a request that fetch has sent, before any response
\* of it reaches the client, and whatever has become of the call since.
ServerApply(c) ==
    /\ Len(server[c]) < Len(sent[c])
    /\ server' = [server EXCEPT ![c] = Append(@, sent[c][Len(@) + 1])]
    /\ UNCHANGED <<clientConfig, created, checked, config, handles, pc, args, timeoutSig,
                   ctrl, sent, resp, outcome>>

NetworkFail(c) ==
    /\ InFlight(c)
    /\ pc' = [pc EXCEPT ![c] = "done"]
    /\ outcome' = [outcome EXCEPT ![c] = AwaitFetchRejected(TypeErrorValue)]
    /\ UNCHANGED <<clientConfig, created, checked, config, server, handles, args, timeoutSig, ctrl, sent, resp>>

\* The calls an abort of their signal cuts short, given the signals after
\* the abort: fetch, or the body read, rejects with the signal's reason.
\* A signal whose abort reaches the call even after it has settled.
AbortedWhenever(ts, cs, c) == pc[c] # "idle" /\ MergedSignal(ts[c], cs[c]).aborted

Aborted(ts, cs, c) == InFlight(c) /\ MergedSignal(ts[c], cs[c]).aborted

SettleAborted(ts, cs) ==
    /\ pc' = [c \in Calls |-> IF Aborted(ts, cs, c) THEN "done" ELSE pc[c]]
    /\ outcome' = [c \in Calls |->
          IF Aborted(ts, cs, c)
          THEN AwaitFetchRejected(MergedSignal(ts[c], cs[c]).reason)
          ELSE outcome[c]]

\* The timer of AbortSignal.timeout(defaultTimeout) of call c fires: the
\* signal aborts and its abort listener onAbort(timeoutSignal) runs.
TimeoutFire(c) ==
    LET ts == [timeoutSig EXCEPT ![c] = ControllerAbort(@, TimeoutReason)]
        cs == [ctrl EXCEPT ![c] =
                  IF @.exists
                  THEN [exists |-> TRUE, signal |-> Listener(c, @.signal, TimeoutReason)]
                  ELSE @]
    IN /\ pc[c] # "idle"
       /\ Dispatch(args[c]).mode # "raw"
       /\ ~timeoutSig[c].aborted
       /\ timeoutSig' = ts
       /\ ctrl' = cs
       /\ SettleAborted(ts, cs)
       /\ UNCHANGED <<clientConfig, created, checked, config, server, handles, args, sent, resp>>

\* One composite controller shared by the calls: every listener hears
\* every handle.
ListensToAny(c, h) == ctrl[c].exists

\* Call c attached its listener onAbort(opts.signal) to handle h.
Listens(c, h) == ctrl[c].exists /\ args[c].opts = h

\* The caller aborts handle h: the abort listeners onAbort(opts.signal) of
\* the calls that were given h run.
\* The default timeout elapses for two calls issued at the same time: the
\* timeout signal of each fires and runs the listener its call attached.
TimeoutBoth(c, d) ==
    LET ts == [e \in Calls |->
                  IF e \in {c, d} THEN ControllerAbort(timeoutSig[e], TimeoutReason)
                  ELSE timeoutSig[e]]
        cs == [e \in Calls |->
                  IF e \in {c, d} /\ ctrl[e].exists
                  THEN [exists |-> TRUE,
                        signal |-> Listener(e, ctrl[e].signal, TimeoutReason)]
                  ELSE ctrl[e]]
    IN /\ \A e \in {c, d} : pc[e] # "idle" /\ ~timeoutSig[e].aborted
       /\ timeoutSig' = ts
       /\ ctrl' = cs
       /\ SettleAborted(ts, cs)
       /\ UNCHANGED <<clientConfig, created, checked, config, server, handles, args, sent, resp>>

UserAbort(h, reasons) ==
    \E reason \in reasons :
        LET cs == [c \in Calls |->
                      IF Listens(c, h)
                      THEN [exists |-> TRUE, signal |-> Listener(c, ctrl[c].signal, reason)]
                      ELSE ctrl[c]]
        IN /\ ~handles[h].aborted
           /\ handles' = [handles EXCEPT ![h] = ControllerAbort(@, reason)]
           /\ ctrl' = cs
           /\ SettleAborted(timeoutSig, cs)
           /\ UNCHANGED <<clientConfig, created, checked, config, server, args, timeoutSig, sent, resp>>

Opts == {"none"} \cup Handles

OneConfig ==
    [apiKey |-> Some(ApiKey), baseUrl |-> Origin, credentials |-> "include",
     defaultTimeout |-> DefaultTimeout]

OneId == {JSChars(<<"a", "b", "c", "-", "1", "2", "3">>)}

OneObject == {<< <<"name", "Alpha">> >>}

\* Spec: concurrent calls on one resource, one input of each kind.
Init == InitWith({OneConfig})

Next ==
    \/ \E c \in Calls : Get(c, {Users}, OneId, Opts)
    \/ \E c \in Calls : Create(c, {Users}, OneObject, Opts)
    \/ \E c \in Calls : Remove(c, {Users}, OneId, Opts)
    \/ \E c \in Calls : Respond(c, FewResponses)
    \/ \E c \in Calls : BodyRead(c)
    \/ \E c \in Calls : NetworkFail(c)
    \/ \E c \in Calls : TimeoutFire(c)
    \/ \E h \in Handles : UserAbort(h, {DefaultAbortReason})

Spec == Init /\ [][Next]_vars

\* SpecWire: one call, over every configuration and every argument.
InitWire == InitWith(Configs)

NextWire ==
    \/ List(1, Paths, {"none", "h1"})
    \/ Get(1, Paths, Ids, {"none", "h1"})
    \/ Create(1, Paths, ParamObjects, {"none", "h1"})
    \/ Update(1, Paths, ParamObjects, {"none", "h1"})
    \/ Remove(1, Paths, Ids, {"none", "h1"})
    \/ Respond(1, FewResponses)
    \/ BodyRead(1)
    \/ NetworkFail(1)
    \/ TimeoutFire(1)
    \/ UserAbort("h1", {DefaultAbortReason})

SpecWire == InitWire /\ [][NextWire]_vars

\* SpecInterp: one call, over every response and every abort reason.
InitInterp == InitWith({OneConfig})

NextInterp ==
    \/ List(1, {Users}, {"none", "h1"})
    \/ Get(1, {Users}, OneId, {"none", "h1"})
    \/ Create(1, {Users}, OneObject, {"none", "h1"})
    \/ Update(1, {Users}, OneObject, {"none", "h1"})
    \/ Remove(1, {Users}, OneId, {"none", "h1"})
    \/ Respond(1, Responses)
    \/ BodyRead(1)
    \/ NetworkFail(1)
    \/ TimeoutFire(1)
    \/ UserAbort("h1", Reasons)

SpecInterp == InitInterp /\ [][NextInterp]_vars

\* SpecDirect: one call of the dispatcher's own methods, over every
\* configuration, path, parameter map, body and request init.
InitDirect == InitWith(Configs)

NextDirect ==
    \/ GetCall(1, DirectPaths, Queries, {"none", "h1"})
    \/ PostCall(1, DirectPaths, OptionalBodies, {"none", "h1"})
    \/ PutCall(1, DirectPaths, OptionalBodies, {"none", "h1"})
    \/ DelCall(1, DirectPaths, Queries, {"none", "h1"})
    \/ RawCall(1, DirectPaths, RawInits)
    \/ Respond(1, FewResponses)
    \/ BodyRead(1)
    \/ NetworkFail(1)
    \/ TimeoutFire(1)
    \/ UserAbort("h1", {DefaultAbortReason})

SpecDirect == InitDirect /\ [][NextDirect]_vars

\* SpecClients: the caller builds clients, one after the other, and calls
\* the dispatcher of the client it built last; earlier calls stay in flight.
InitClients == InitNoClient

NextClients ==
    \/ Construct(KeyConfigs)
    \/ \E c \in Calls : GetCall(c, {PlainPath}, {Absent}, {"none"})
    \/ \E c \in Calls : PostCall(c, {PlainPath}, {Some(<< <<"name", "Alpha">> >>)}, {"none"})
    \/ \E c \in Calls : PutCall(c, {PlainPath}, {Absent}, {"none"})
    \/ \E c \in Calls : DelCall(c, {PlainPath}, {Absent}, {"none"})
    \/ \E c \in Calls : Respond(c, {OkResponse})
    \/ \E c \in Calls : BodyRead(c)

SpecClients == InitClients /\ [][NextClients]_vars

\* SpecCreate: one createAdminClient call over UrlConfigs, then GET requests
\* through the client it returned.
InitCreate == InitNoClient

NextCreate ==
    \/ created = Pending /\ Construct(UrlConfigs)
    \/ \E c \in Calls : GetCall(c, {PlainPath}, {Absent}, {"none"})
    \/ \E c \in Calls : Respond(c, {OkResponse})
    \/ \E c \in Calls : BodyRead(c)
    \/ \E c \in Calls : NetworkFail(c)

SpecCreate == InitCreate /\ [][NextCreate]_vars

\* SpecUpload: two concurrent calls of one client, among them uploads and
\* raw calls, over all configurations.
InitUpload == InitWith(Configs)

NextUpload ==
    \/ \E c \in Calls : GetCall(c, {PlainPath}, {Absent}, {"none", "h1"})
    \/ \E c \in Calls : PostCall(c, {PlainPath}, {Some(<< <<"name", "Alpha">> >>)}, {"none"})
    \/ \E c \in Calls : DelCall(c, {PlainPath}, {Absent}, {"none"})
    \/ \E c \in Calls : RawCall(c, {UploadPath}, RawInits)
    \/ \E c \in Calls : UploadCall(c, {"none", "h1"})
    \/ \E c \in Calls : Respond(c, {OkResponse, Response(404, Some(JsonUtf8), <<>>)})
    \/ \E c \in Calls : BodyRead(c)
    \/ \E c \in Calls : NetworkFail(c)
    \/ \E c \in Calls : TimeoutFire(c)
    \/ UserAbort("h1", {DefaultAbortReason})

SpecUpload == InitUpload /\ [][NextUpload]_vars

\* SpecServer: two concurrent create, update and remove calls, the server
\* applying their requests, and cancellations.
InitServer == InitWith({OneConfig})

NextServer ==
    \/ \E c \in Calls : Create(c, {Users}, OneObject, {"none", "h1"})
    \/ \E c \in Calls : Update(c, {Users}, OneObject, {"none"})
    \/ \E c \in Calls : Remove(c, {Users}, OneId, {"none"})
    \/ \E c \in Calls : ServerApply(c)
    \/ \E c \in Calls : Respond(c, {OkResponse, Response(204, Absent, <<>>)})
    \/ \E c \in Calls : BodyRead(c)
    \/ \E c \in Calls : TimeoutFire(c)
    \/ UserAbort("h1", {DefaultAbortReason})

SpecServer == InitServer /\ [][NextServer]_vars

\* SpecSsh: one sshKeys.remove call over all identifiers and responses.
InitSsh == InitWith(Configs)

NextSsh ==
    \/ SshRemove(1, Ids, {"none", "h1"})
    \/ Respond(1, FewResponses)
    \/ BodyRead(1)
    \/ NetworkFail(1)
    \/ TimeoutFire(1)
    \/ UserAbort("h1", {DefaultAbortReason})

SpecSsh == InitSsh /\ [][NextSsh]_vars

\* SpecEquiv: a post through the dispatcher and an upload, issued one after
\* the other with the same caller signal and no event in between, and then
\* driven by the same events: the common timeout and the caller's signal.
InitEquiv == InitWith({OneConfig})

NextEquiv ==
    \/ PostCall(1, {PlainPath}, {Absent}, {"none", "h1"})
    \/ UploadCall(2, {args[1].opts})
    \/ (pc[1] = "idle" \/ pc[2] # "idle") /\ UserAbort("h1", Reasons)
    \/ TimeoutBoth(1, 2)
    \/ \E c \in {1, 2} : pc[2] # "idle" /\ Respond(c, {OkResponse})
    \/ \E c \in {1, 2} : BodyRead(c)

SpecEquiv == InitEquiv /\ [][NextEquiv]_vars

\* SpecAuth: one auth.logout call over all responses.
InitAuth == InitWith(Configs)

NextAuth ==
    \/ Logout(1, {"none", "h1"})
    \/ Respond(1, Responses)
    \/ BodyRead(1)
    \/ NetworkFail(1)
    \/ TimeoutFire(1)
    \/ UserAbort("h1", {DefaultAbortReason})

SpecAuth == InitAuth /\ [][NextAuth]_vars

\* isApiError(err) called on the value under test.
IsApiErrorCall ==
    /\ checked[2] = Absent
    /\ checked' = <<checked[1], Some(IsApiError(checked[1]))>>
    /\ UNCHANGED <<clientConfig, created, config, server, handles, pc, args, timeoutSig, ctrl,
                   sent, resp, outcome>>

\* SpecGuard: isApiError applied to one value of GuardValues.
InitGuard ==
    /\ config = OneConfig
    /\ clientConfig = ClientConfigOf(config)
    /\ created = Return(config)
    /\ checked \in {<<v, Absent>> : v \in GuardValues}
    /\ NoCalls

NextGuard == IsApiErrorCall

SpecGuard == InitGuard /\ [][NextGuard]_vars

\* SpecLive: SpecInterp with the timer of AbortSignal.timeout, which the
\* event loop runs once its delay has passed.
SpecLive == InitInterp /\ [][NextInterp]_vars /\ WF_vars(TimeoutFire(1))

----------------------------------------------------------------------------
(* Properties.                                                             *)

Mode(c) == Dispatch(args[c]).mode

Settled(c) == pc[c] = "done"

Failed(c) == Settled(c) /\ outcome[c].kind = "throw"

Succeeded(c) == Settled(c) /\ outcome[c].kind = "return"

\* The call settled with what its response handler produced, not with a
\* rejection of fetch or of the body read.
Interpreted(c) ==
    /\ Settled(c)
    /\ resp[c].present
    /\ outcome[c] # Throw(TypeErrorValue)
    /\ ~(EffectiveSignal(c).aborted /\ outcome[c] = Throw(EffectiveSignal(c).reason))

DeclaresJson(r) == r.contentType.present /\ Includes(r.contentType.value, JsonMediaType)

C2_NonOkAlwaysApiError ==
    \A c \in Calls :
        (/\ Settled(c) /\ resp[c].present /\ ~IsOk(resp[c].value)
         /\ ~timeoutSig[c].aborted
         /\ \A h \in Handles : ~handles[h].aborted
         /\ outcome[c] # Throw(TypeErrorValue)) =>
            /\ outcome[c].kind = "throw"
            /\ IsApiError(outcome[c].value)
            /\ outcome[c].value.props.status = JSNumber(resp[c].value.status)
            /\ outcome[c].value.props.message = JSString(resp[c].value.statusText)

\* C3: a call issued with a caller handle that is already fired gets a
\* composite signal fired with the handle's reason, fails with that reason
\* in the same step, and sends no request.
C3_AlreadyFiredHandle ==
    [][\A c \in Calls :
          (/\ pc[c] = "idle" /\ pc'[c] # "idle"
           /\ args'[c].opts \in Handles
           /\ handles[args'[c].opts].aborted) =>
              /\ ctrl'[c].exists
              /\ ctrl'[c].signal = [aborted |-> TRUE, reason |-> handles[args'[c].opts].reason]
              /\ pc'[c] = "done"
              /\ outcome'[c] = Throw(handles[args'[c].opts].reason)
              /\ sent'[c] = <<>>]_vars

C3_Witness ==
    \E c \in Calls :
        /\ Failed(c) /\ args[c].opts \in Handles /\ sent[c] = <<>>
        /\ outcome[c].value = handles[args[c].opts].reason
        /\ outcome[c].value = JSString("user cancelled")

\* C4: the composite signal takes the reason of the source that fires
\* first and keeps it when the other fires later; a caller's abort of a call
\* awaiting its response, before the timeout, fails the call with the
\* caller's reason.
C4_FirstSourceWins ==
    [][\A c \in Calls :
          LET h == args[c].opts
              userFires == h \in Handles /\ ~handles[h].aborted /\ handles'[h].aborted
              timerFires == ~timeoutSig[c].aborted /\ timeoutSig'[c].aborted
          IN /\ (ctrl[c].exists /\ ctrl[c].signal.aborted) => ctrl'[c] = ctrl[c]
             /\ (ctrl[c].exists /\ ~ctrl[c].signal.aborted /\ ctrl'[c].signal.aborted) =>
                   \/ timerFires /\ ctrl'[c].signal.reason = TimeoutReason
                   \/ userFires /\ ctrl'[c].signal.reason = handles'[h].reason
             /\ (pc[c] = "fetching" /\ ~timeoutSig[c].aborted /\ userFires) =>
                   /\ pc'[c] = "done"
                   /\ outcome'[c] = Throw(handles'[h].reason)]_vars

\* The timeout fired first and the caller's later abort changed nothing.
C4_Witness ==
    \E c \in Calls :
        /\ args[c].opts \in Handles
        /\ handles[args[c].opts].aborted
        /\ handles[args[c].opts].reason # TimeoutReason
        /\ ctrl[c].signal = [aborted |-> TRUE, reason |-> TimeoutReason]
        /\ outcome[c] = Throw(TimeoutReason)

C6_ErrorBody ==
    \A c \in Calls :
        (/\ Failed(c) /\ resp[c].present /\ ~IsOk(resp[c].value)
         /\ IsApiError(outcome[c].value)) =>
            LET r == resp[c].value
            IN IF DeclaresJson(r)
               THEN /\ JSONParse(r.body).ok
                    /\ outcome[c].value.props.body = JSFromJson(JSONParse(r.body).value)
               ELSE outcome[c].value.props.body = JSUndefined

\* A JSON content type with a charset suffix, and the body attached.
C6_Witness ==
    \E c \in Calls :
        /\ Failed(c) /\ resp[c].present /\ resp[c].value.status = 404
        /\ resp[c].value.contentType = Some(JsonUtf8)
        /\ IsApiError(outcome[c].value)
        /\ outcome[c].value.props.body = JSObject([error |-> JSString("not_found")])

\* C7: in decode mode a 2xx response whose content kind is not JSON fails
\* the call, at once, with an ApiError of that status and an undefined body.
C7_OkButNotJson ==
    \A c \in Calls :
        (/\ resp[c].present /\ IsOk(resp[c].value) /\ Mode(c) = "decode"
         /\ ~DeclaresJson(resp[c].value)) =>
            /\ Settled(c)
            /\ outcome[c] = Throw(CreateApiError(resp[c].value.status,
                                                 resp[c].value.statusText, JSUndefined))

C7_Witness ==
    \E c \in Calls :
        /\ args[c].op = "get" /\ resp[c].present
        /\ resp[c].value.status = 200 /\ resp[c].value.contentType = Some(TextPlain)
        /\ Failed(c) /\ IsApiError(outcome[c].value)
        /\ outcome[c].value.props.status = JSNumber(200)
        /\ outcome[c].value.props.body = JSUndefined

\* C8: in void mode every 2xx response resolves to no value at once, with
\* no body read; and a void-mode call and a decode-mode call that got the
\* same non-2xx response, each settled by its handler, settle alike.
C8_VoidMode ==
    /\ \A c \in Calls :
          (resp[c].present /\ IsOk(resp[c].value) /\ Mode(c) = "void") =>
              Settled(c) /\ outcome[c] = Return(JSUndefined)
    /\ \A c, d \in Calls :
          (/\ Mode(c) = "void" /\ Mode(d) = "decode"
           /\ resp[c].present /\ resp[d] = resp[c] /\ ~IsOk(resp[c].value)
           /\ Interpreted(c) /\ Interpreted(d)) =>
              outcome[c] = outcome[d]

\* A 204 without a body and a 200 with a JSON body, both resolved to no value.
C8_Witness ==
    \E c, d \in Calls :
        /\ args[c].op = "remove" /\ args[d].op = "remove"
        /\ resp[c].present /\ resp[c].value.status = 204 /\ resp[c].value.body = <<>>
        /\ resp[d].present /\ resp[d].value.status = 200 /\ JSONParse(resp[d].value.body).ok
        /\ outcome[c] = Return(JSUndefined) /\ outcome[d] = Return(JSUndefined)

\* C9 (as claimed): two calls of one mode whose responses have the same
\* status and content kind and differ only in body, each settled by its
\* handler, both succeed or both fail.
C9_StatusAloneDecides ==
    \A c, d \in Calls :
        (/\ Interpreted(c) /\ Interpreted(d) /\ Mode(c) = Mode(d)
         /\ resp[c].value.status = resp[d].value.status
         /\ resp[c].value.contentType = resp[d].value.contentType) =>
            (Succeeded(c) <=> Succeeded(d))

\* C9 (amended): a call settled by its handler succeeds exactly when the
\* status is 2xx and either the mode is void or the response declares JSON
\* and its body is a JSON text; what a JSON body contains decides nothing.
C9_StatusKindAndDecodability ==
    \A c \in Calls :
        Interpreted(c) =>
            (Succeeded(c) <=>
                /\ IsOk(resp[c].value)
                /\ \/ Mode(c) = "void"
                   \/ DeclaresJson(resp[c].value) /\ JSONParse(resp[c].value.body).ok)

\* A 2xx JSON response whose body is no JSON text failed a decode-mode call.
C9_Witness ==
    \E c, d \in Calls :
        /\ Interpreted(c) /\ Interpreted(d) /\ Mode(c) = "decode" /\ Mode(d) = "decode"
        /\ resp[c].value.status = 200 /\ resp[d].value.status = 200
        /\ resp[c].value.contentType = resp[d].value.contentType
        /\ Succeeded(c) /\ Failed(d)

\* C10: the request each CRUD operation sends: method, path shape, query
\* (as the server parses it) and body (as the server decodes it).
C10_CrudRequests ==
    \A c \in Calls :
        /\ Len(sent[c]) <= 1
        /\ Len(sent[c]) = 1 =>
              LET a == args[c]
                  req == sent[c][1]
                  noSlash == Concat3(Origin, ApiPrefix, <<"/">> \o a.path)
                  slash == noSlash \o <<"/">>
                  byId == /\ UrlBeforeQuery(req.url) = slash
                          /\ ParseQuery(UrlQuery(req.url)) = << <<Q, StringOf(a.id)>> >>
                          /\ ~req.body.present
                  withBody == /\ ~HasQuery(req.url)
                              /\ req.body.present
                              /\ JSONParse(req.body.value) = [ok |-> TRUE, value |-> a.params]
              IN CASE a.op = "list" ->
                        req.method = "GET" /\ req.url = noSlash /\ ~req.body.present
                   [] a.op = "get" -> req.method = "GET" /\ byId
                   [] a.op = "create" ->
                        req.method = "POST" /\ req.url = noSlash /\ withBody
                   [] a.op = "update" ->
                        req.method = "PUT" /\ req.url = slash /\ withBody
                   [] a.op = "remove" -> req.method = "DELETE" /\ byId

\* remove sent with an identifier that holds reserved characters.
C10_Witness ==
    \E c \in Calls :
        /\ Len(sent[c]) = 1
        /\ args[c].op = "remove"
        /\ args[c].id = JSChars(<<"a", " ", "&", "=", "b">>)
        /\ sent[c][1].method = "DELETE"

\* C11: get(id) and remove(id) put String(id) itself in query parameter q:
\* what the server parses from the request's query string is the single
\* pair q = the identifier's text (the decimal numeral of a number), with no
\* quoting and no reformatting, also for an empty, a numeric-looking and a
\* reserved-character identifier.
C11_IdentifierInQuery ==
    \A c \in Calls :
        (Len(sent[c]) = 1 /\ args[c].op \in {"get", "remove"}) =>
            LET id == args[c].id
                query == ParseQuery(UrlQuery(sent[c][1].url))
            IN /\ Len(query) = 1
               /\ query[1][1] = Q
               /\ id.typeof = "string" => query[1][2] = id.chars
               /\ id = JSNumber(42) => query[1][2] = <<"4", "2">>

\* get sent with the empty identifier, and q parsed as the empty string.
C11_Witness ==
    \E c \in Calls :
        /\ Len(sent[c]) = 1 /\ args[c].op = "get" /\ args[c].id = JSChars(<<>>)
        /\ UrlQuery(sent[c][1].url) = <<"q", "=">>
        /\ ParseQuery(UrlQuery(sent[c][1].url)) = << <<Q, <<>> >> >>

\* C12 (as claimed): a get or del called with the query parameters omitted,
\* or with an empty parameter map, requests the URL origin + /api/v1 + path
\* with nothing appended: no "?" and no "&".
C12_NoEmptyQuery ==
    \A c \in Calls :
        (/\ Len(sent[c]) = 1
         /\ args[c].op \in {"http.get", "http.del"}
         /\ args[c].input \in {Absent, Some(<<>>)}) =>
            sent[c][1].url = Concat3(config.baseUrl, ApiPrefix, args[c].path)

\* What a get or del call with a parameter map appended to origin +
\* /api/v1 + path, and the parameters the server parses from the request.
Appended(c) ==
    SubSeq(sent[c][1].url,
           Len(Concat3(config.baseUrl, ApiPrefix, args[c].path)) + 1,
           Len(sent[c][1].url))

ServerParams(c) == ParseQuery(UrlQuery(sent[c][1].url))

WithMap(c) ==
    /\ Len(sent[c]) = 1
    /\ args[c].op \in {"http.get", "http.del"}
    /\ args[c].input.present

\* C13 (as claimed): the parameters the server parses are those the path
\* already held followed by the caller's map, pair for pair, in the order
\* the caller inserted them.
C13_RoundTripInInsertionOrder ==
    \A c \in Calls :
        WithMap(c) =>
            ServerParams(c) = ParseQuery(UrlQuery(args[c].path)) \o args[c].input.value

\* C13 (amended): the appended text starts with "?", or with "&" when the
\* path holds a "?"; the server parses the path's own parameters followed by
\* exactly the pairs of the caller's map, array-index keys first in
\* ascending order and then the other keys in insertion order; so a map
\* without array-index keys comes back pair for pair as inserted.
C13_RoundTripInOwnKeyOrder ==
    \A c \in Calls :
        WithMap(c) =>
            LET m == args[c].input.value
                own == ParseQuery(UrlQuery(args[c].path))
                got == SubSeq(ServerParams(c), Len(own) + 1, Len(ServerParams(c)))
                At(key) == CHOOSE i \in DOMAIN m : m[i][1] = key
            IN /\ Head(Appended(c)) = IF HasQuery(args[c].path) THEN "&" ELSE "?"
               /\ SubSeq(ServerParams(c), 1, Len(own)) = own
               /\ Len(got) = Len(m)
               /\ {got[i] : i \in DOMAIN got} = {m[i] : i \in DOMAIN m}
               /\ \A i, j \in DOMAIN got :
                      i < j =>
                         IF IsIndexKey(got[i][1])
                         THEN IsIndexKey(got[j][1]) =>
                                  IndexValue(got[i][1]) < IndexValue(got[j][1])
                         ELSE /\ ~IsIndexKey(got[j][1])
                              /\ At(got[i][1]) < At(got[j][1])
               /\ (\A i \in DOMAIN m : ~IsIndexKey(m[i][1])) => got = m

\* A map with array-index keys inserted last, appended with "&" to a path
\* that holds a query, and parsed by the server with those keys first.
C13_Witness ==
    \E c \in Calls :
        /\ WithMap(c) /\ args[c].path = QueryPath
        /\ args[c].input.value =
              << <<<<"b">>, <<"1">> >>, << <<"1", "0">>, <<"x">> >>, << <<"2">>, <<"y">> >> >>
        /\ Head(Appended(c)) = "&"
        /\ ServerParams(c) =
              << <<<<"x">>, <<"1">> >>, << <<"2">>, <<"y">> >>,
                 << <<"1", "0">>, <<"x">> >>, << <<"b">>, <<"1">> >> >>

\* C14: every request a get, post, put or del issues declares the JSON
\* content kind, and carries Authorization, equal to "Bearer " followed by
\* the credential, exactly when the client the call is made on was built
\* with a credential, whatever requests earlier clients have sent.
C14_RequestHeaders ==
    [][\A c \in Calls :
          (sent[c] = <<>> /\ sent'[c] # <<>> /\ Dispatch(args'[c]).mode # "raw") =>
              LET headers == sent'[c][1].headers
              IN /\ "Content-Type" \in DOMAIN headers
                 /\ headers["Content-Type"] = JsonMediaType
                 /\ "Authorization" \in DOMAIN headers <=> clientConfig.apiKey.present
                 /\ clientConfig.apiKey.present =>
                        headers["Authorization"] = BearerPrefix \o clientConfig.apiKey.value
                 /\ DOMAIN headers \subseteq {"Content-Type", "Authorization"}]_vars

\* A request with a credential, then one of a client built without.
C14_Witness ==
    /\ sent[1] # <<>> /\ sent[2] # <<>>
    /\ "Authorization" \in DOMAIN sent[1][1].headers
    /\ sent[1][1].headers["Authorization"] = BearerPrefix \o ApiKey
    /\ "Authorization" \notin DOMAIN sent[2][1].headers
    /\ ~clientConfig.apiKey.present

\* C15: a raw call requests origin + /api/v1 + path with the caller's init
\* as it was given (method, headers, body, credentials: no Content-Type and
\* no Authorization added, no timeout or composite signal made), and settles
\* with the response itself whatever its status, never with an ApiError.
C15_RawPassThrough ==
    \A c \in Calls :
        args[c].op = "http.raw" =>
            LET init == args[c].input.value
            IN /\ Len(sent[c]) = 1 =>
                     /\ sent[c][1].url = Concat3(config.baseUrl, ApiPrefix, args[c].path)
                     /\ sent[c][1].method = init.method
                     /\ sent[c][1].headers = init.headers
                     /\ sent[c][1].body = init.body
                     /\ sent[c][1].credentials = init.credentials
               /\ ~ctrl[c].exists /\ ~timeoutSig[c].aborted
               /\ resp[c].present =>
                     Settled(c) /\ outcome[c] = Return(JSObject(resp[c].value))
               /\ Failed(c) => ~IsApiError(outcome[c].value)

\* On a dispatcher with a credential, a raw call without headers got a 404
\* response back as its result.
C15_Witness ==
    \E c \in Calls :
        /\ args[c].op = "http.raw" /\ config.apiKey.present
        /\ Len(sent[c]) = 1 /\ sent[c][1].headers = <<>>
        /\ resp[c].present /\ resp[c].value.status = 404
        /\ Succeeded(c) /\ outcome[c].value.props.status = 404

\* C16: a post or put called without a body sends a request without a
\* body; called with a body, it sends the body's JSON text, which the
\* server decodes to the same object (the text "{}" for an empty object).
C16_OptionalBody ==
    \A c \in Calls :
        (Len(sent[c]) = 1 /\ args[c].op \in {"http.post", "http.put"}) =>
            IF args[c].input.present
            THEN /\ sent[c][1].body.present
                 /\ JSONParse(sent[c][1].body.value) = [ok |-> TRUE, value |-> args[c].input.value]
                 /\ args[c].input.value = <<>> =>
                        sent[c][1].body.value = <<Punct("{"), Punct("}")>>
            ELSE sent[c][1].body = Absent

\* A post sent without a body and answered.
C16_Witness ==
    \E c \in Calls :
        /\ args[c].op = "http.post" /\ ~args[c].input.present
        /\ Len(sent[c]) = 1 /\ sent[c][1].method = "POST" /\ ~sent[c][1].body.present
        /\ resp[c].present

\* C17: a call puts at most one request on the wire, and only when it is
\* made: no step adds a request to a call already in flight or settled,
\* whatever response, transport failure or abort it met; a settled call
\* stays as it settled; a call answered with a non-2xx status fails; and no
\* call succeeds without a 2xx response of its own.
C17_NoRetryNoRecovery ==
    /\ [][\A c \in Calls :
             /\ Len(sent'[c]) <= 1
             /\ sent'[c] # sent[c] => pc[c] = "idle"
             /\ pc[c] = "done" => pc'[c] = "done" /\ outcome'[c] = outcome[c]]_vars
    /\ [](\A c \in Calls :
             /\ (Settled(c) /\ resp[c].present /\ ~IsOk(resp[c].value)) => Failed(c)
             /\ Succeeded(c) => resp[c].present /\ IsOk(resp[c].value)
             /\ (Settled(c) /\ ~resp[c].present) => Failed(c))

\* A call answered 500 failed with the ApiError, one request sent.
C17_Witness ==
    \E c \in Calls :
        /\ Failed(c) /\ Len(sent[c]) = 1
        /\ resp[c].present /\ resp[c].value.status = 500
        /\ IsApiError(outcome[c].value)
        /\ outcome[c].value.props.status = JSNumber(500)

\* What belongs to call c alone.
Own(c) == <<pc[c], args[c], timeoutSig[c], ctrl[c], sent[c], resp[c], outcome[c]>>

OwnNext(c) == <<pc'[c], args'[c], timeoutSig'[c], ctrl'[c], sent'[c], resp'[c], outcome'[c]>>

\* C18: no step changes the configuration; a step changes two calls only
\* by firing the one handle both were given, and the firing of a handle
\* changes no call that was given another handle or none, so one call's
\* timeout, response, failure or abort leaves every other call as it was;
\* the request of a call is the one its own arguments and the configuration
\* give, and a settled call holds what its own response, its own signal or
\* a transport failure gives.
C18_CallsShareNothing ==
    /\ [][/\ config' = config
           /\ \A c, d \in Calls :
                 (c # d /\ OwnNext(c) # Own(c) /\ OwnNext(d) # Own(d)) =>
                     /\ args[c].opts \in Handles /\ args[d].opts = args[c].opts
                     /\ handles'[args[c].opts] # handles[args[c].opts]
           /\ \A h \in Handles, e \in Calls :
                 (handles'[h] # handles[h] /\ args[e].opts # h) => OwnNext(e) = Own(e)]_vars
    /\ [](\A c \in Calls :
             /\ sent[c] \in {<<>>, <<Request(Dispatch(args[c]))>>}
             /\ Settled(c) =>
                   \/ outcome[c] = Throw(TypeErrorValue)
                   \/ /\ EffectiveSignal(c).aborted
                      /\ outcome[c] = Throw(EffectiveSignal(c).reason)
                   \/ /\ resp[c].present
                      /\ LET step == Interpret(Mode(c), resp[c].value)
                         IN outcome[c] =
                               IF step.kind = "await"
                               THEN AfterJson(resp[c].value, step.value.str,
                                              JSONParse(resp[c].value.body))
                               ELSE step)

\* Two calls in flight with different handles: the one whose handle fired
\* failed with the abort, the other was answered and succeeded afterwards.
C18_Witness ==
    \E c, d \in Calls :
        /\ args[c].opts = "h1" /\ args[d].opts = "h2"
        /\ handles["h1"].aborted /\ ~handles["h2"].aborted
        /\ Len(sent[c]) = 1 /\ Failed(c) /\ outcome[c] = Throw(DefaultAbortReason)
        /\ Succeeded(d)

\* The _tag a property read finds: the own one, else the inherited one.
TagOf(v) ==
    IF "_tag" \in DOMAIN v.props THEN Some(v.props["_tag"])
    ELSE IF "proto" \in DOMAIN v /\ "_tag" \in DOMAIN v.proto.props
    THEN Some(v.proto.props["_tag"])
    ELSE Absent

\* C19: isApiError answers true exactly for a non-null value of type
\* object whose _tag, own or inherited, is the string "ApiError", with or
\* without status, message and body; so false for every primitive, every
\* function, and every object whose _tag is missing or anything else.
C19_IsApiErrorExact ==
    checked[2].present =>
        LET v == checked[1]
        IN checked[2].value =
              (/\ v.typeof = "object"
               /\ v # JSNull
               /\ TagOf(v) = Some(JSString("ApiError")))

\* isApiError has answered true for an object without the ApiError fields
\* status and body that inherits the sentinel from its prototype.
C19_Witness ==
    checked = <<JSObjectFrom(JSObject([_tag |-> JSString("ApiError")]),
                             [message |-> JSString("Not Found"),
                              status |-> JSNumber(404)]),
                Some(TRUE)>>

\* C20: createAdminClient throws, returns no client and issues no request,
\* for every base URL that is not https when allowInsecure is absent or
\* false; it accepts an http base URL when allowInsecure is true, and an
\* https base URL whatever allowInsecure is (the apiKey being acceptable).
C20_HttpsUnlessAllowInsecure ==
    created # Pending =>
        LET cc == clientConfig
            protocol == IF UrlParses(cc.baseUrl) THEN UrlProtocol(cc.baseUrl) ELSE <<>>
            https == protocol = <<"h", "t", "t", "p", "s", ":">>
            http == protocol = <<"h", "t", "t", "p", ":">>
            keyOk == cc.apiKey # Some(<<>>)
        IN /\ ~https /\ cc.allowInsecure # Some(TRUE) =>
                  /\ created.kind = "throw"
                  /\ \A c \in Calls : pc[c] = "idle"
           /\ http /\ cc.allowInsecure = Some(TRUE) /\ keyOk => created.kind = "return"
           /\ https /\ keyOk => created.kind = "return"

\* C21: the signal a call hands to fetch is aborted exactly when its timeout
\* signal or the caller's signal has fired; a call made without a caller
\* signal has no composite controller and its signal is the timeout signal
\* itself.
C21_EffectiveHandle ==
    \A c \in Calls :
        pc[c] # "idle" /\ Mode(c) # "raw" =>
            LET handle == args[c].opts
            IN /\ EffectiveSignal(c).aborted <=>
                      \/ timeoutSig[c].aborted
                      \/ handle # "none" /\ handles[handle].aborted
               /\ handle = "none" =>
                      ~ctrl[c].exists /\ EffectiveSignal(c) = timeoutSig[c]
               /\ handle # "none" => ctrl[c].exists

\* A call made without a caller signal whose timeout has fired, next to a
\* call whose caller signal has fired while its timeout has not.
C21_Witness ==
    /\ pc[1] # "idle" /\ args[1].opts = "none"
    /\ timeoutSig[1].aborted /\ EffectiveSignal(1).aborted
    /\ pc[2] # "idle" /\ args[2].opts # "none"
    /\ ~timeoutSig[2].aborted /\ EffectiveSignal(2).aborted

\* The default timeout of call c elapses, and leaves the call's signal
\* aborted and the call settled, or not.
TimesOut(c, cancelled) ==
    /\ TimeoutFire(c)
    /\ cancelled = (MergedSignal(timeoutSig'[c], ctrl'[c]).aborted /\ pc'[c] = "done")

C23_EveryRequestCarriesMode ==
    \A c \in Calls :
        \A i \in 1..Len(sent[c]) : sent[c][i].credentials = config.credentials

\* C23: every request of a get, post, put, del or upload carries the
\* credentials mode of the configuration, which no step changes; the
\* request of a raw call carries the mode of the init it was given.
C23_ModeOfComposedRequests ==
    /\ [][config'.credentials = config.credentials]_vars
    /\ [](\A c \in Calls :
            \A i \in 1..Len(sent[c]) :
                sent[c][i].credentials =
                    IF args[c].op = "http.raw"
                    THEN args[c].input.value.credentials
                    ELSE config.credentials)

\* A client that omits credentials has sent an upload after a settled get,
\* both without credentials.
C23_Witness ==
    /\ config.credentials = "omit"
    /\ args[1].op = "http.get" /\ pc[1] = "done"
    /\ args[2].op = "upload" /\ pc[2] = "fetching"
    /\ sent[1][1].credentials = "omit"
    /\ sent[2][1].credentials = "omit"

\* The response of call c makes its handler await the body: it declares
\* JSON, and it is a failure or the call decodes its result.
AwaitsBody(c, r) == DeclaresJson(r) /\ (~IsOk(r) \/ Mode(c) = "decode")

\* C24 as claimed: a call waits for the network call only; the step that
\* delivers its response delivers its outcome.
C24_OneSuspensionPoint ==
    \A c \in Calls : pc[c] # "decoding"

\* C24: a call waits for the network call and, when its response makes the
\* handler read the body, a second time for the body; it waits nowhere
\* else, and a response that needs no body read settles the call in the
\* step that delivers it.
C24_AtMostTwoSuspensionPoints ==
    /\ [][\A c \in Calls :
             /\ pc[c] = "idle" => pc'[c] \in {"idle", "fetching", "done"}
             /\ pc[c] = "fetching" => pc'[c] \in {"fetching", "decoding", "done"}
             /\ pc[c] = "decoding" => pc'[c] \in {"decoding", "done"}
             /\ pc[c] = "done" => pc'[c] = "done"
             /\ ~resp[c].present /\ resp'[c].present =>
                    pc'[c] = IF AwaitsBody(c, resp'[c].value) THEN "decoding" ELSE "done"]_vars
    /\ [](\A c \in Calls :
            pc[c] = "decoding" => resp[c].present /\ AwaitsBody(c, resp[c].value))

\* A call was cancelled by its timeout while it awaited the body of a 2xx
\* response, and the other call was issued in the meantime.
C24_Witness ==
    /\ pc[1] = "done"
    /\ resp[1].present /\ IsOk(resp[1].value)
    /\ outcome[1] = Throw(TimeoutReason)
    /\ pc[2] = "fetching"

\* The response of call c arrives and settles it, and leaves call d where
\* it is.
SettlesBefore(c, d) ==
    /\ Respond(c, FewResponses)
    /\ pc'[c] = "done"
    /\ pc'[d] = pc[d] /\ outcome'[d] = outcome[d]

\* C25: of two calls in flight either can settle next, whichever was issued
\* first; no call waits for another to be issued, to get its response or to
\* have its body read.
C25_NoOrderingBetweenCalls ==
    \A c \in Calls :
        /\ pc[c] = "idle" /\ (\A d \in Calls : d < c => pc[d] # "idle") =>
               ENABLED Get(c, {Users}, OneId, Opts)
        /\ pc[c] = "fetching" =>
               \A d \in Calls \ {c} : ENABLED SettlesBefore(c, d)
        /\ pc[c] = "decoding" => ENABLED BodyRead(c)

\* The call issued second has its value while the call issued first still
\* waits for its response.
C25_Witness ==
    /\ pc[1] = "fetching"
    /\ pc[2] = "done" /\ outcome[2].kind = "return" /\ resp[2].present

\* Call c has failed with the reason of its own aborted signal.
Cancelled(c) ==
    /\ pc[c] = "done"
    /\ EffectiveSignal(c).aborted
    /\ outcome[c] = Throw(EffectiveSignal(c).reason)

\* C26: what the server has applied stays applied, a request that was sent
\* can still be applied after its call was cancelled, and a cancelled call
\* has sent its one request and sends no other.
C26_NoRollback ==
    /\ [][\A c \in Calls :
             /\ Len(server'[c]) >= Len(server[c])
             /\ SubSeq(server'[c], 1, Len(server[c])) = server[c]
             /\ Cancelled(c) => sent'[c] = sent[c]]_vars
    /\ [](\A c \in Calls :
            /\ Len(sent[c]) <= 1
            /\ server[c] = SubSeq(sent[c], 1, Len(server[c]))
            /\ Cancelled(c) /\ Len(server[c]) < Len(sent[c]) => ENABLED ServerApply(c))

\* A create and a remove have both failed with the timeout's reason, before
\* any response, although the server has applied both requests.
C26_Witness ==
    /\ args[1].op = "create" /\ args[2].op = "remove"
    /\ \A c \in Calls :
           /\ Cancelled(c) /\ outcome[c] = Throw(TimeoutReason)
           /\ ~resp[c].present
           /\ sent[c] # <<>> /\ server[c] = sent[c]

\* C27: sshKeys.remove(id) sends one DELETE whose path is /api/v1/ssh-keys/
\* followed by id, without a query string, and resolves to no value on
\* every 2xx response.
C27_IdentifierInPath ==
    args[1].op = "sshKeys.remove" =>
        /\ Len(sent[1]) <= 1
        /\ \A i \in 1..Len(sent[1]) :
               /\ sent[1][i].method = "DELETE"
               /\ UrlPathname(sent[1][i].url) =
                      config.baseUrl \o ApiPrefix \o SshKeysPath \o StringOf(args[1].id)
               /\ ~HasQuery(sent[1][i].url)
        /\ resp[1].present /\ IsOk(resp[1].value) =>
               pc[1] = "done" /\ outcome[1] = Return(JSUndefined)

\* C28: a call that has settled keeps its outcome, its response and its one
\* request through every later step, the firing of its timeout and of its
\* caller signal included; a call has an outcome only once it has settled.
C28_SettlesOnce ==
    /\ [][\A c \in Calls :
             pc[c] = "done" =>
                 /\ pc'[c] = "done"
                 /\ outcome'[c] = outcome[c]
                 /\ resp'[c] = resp[c]
                 /\ sent'[c] = sent[c]]_vars
    /\ [](\A c \in Calls : (pc[c] = "done") = (outcome[c] # Pending))

\* A call returned its value; afterwards its caller signal fired, which its
\* listener passed on to the controller, and its timeout fired too.
C28_Witness ==
    /\ pc[1] = "done" /\ outcome[1].kind = "return"
    /\ args[1].opts = "h1" /\ handles["h1"].aborted
    /\ ctrl[1].signal.aborted
    /\ timeoutSig[1].aborted

\* C29: the signal of an upload and the signal mergeSignals gives a post
\* issued at the same time with the same caller signal are equal after every
\* sequence of events, in being aborted and in their reason; both have a
\* controller or neither has; and a cancellation that reaches both before a
\* response fails both with the same value.
C29_UploadSignalEquivalent ==
    pc[2] # "idle" =>
        /\ EffectiveSignal(2) = EffectiveSignal(1)
        /\ ctrl[2] = ctrl[1]
        /\ timeoutSig[2] = timeoutSig[1]
        /\ (\A c \in {1, 2} : pc[c] = "done" /\ ~resp[c].present) =>
               outcome[2] = outcome[1]

\* The caller's signal fired with a reason of the caller's while both calls
\* were in flight, the timeout elapsed afterwards, and both calls have
\* failed with the caller's reason.
C29_Witness ==
    /\ args[2].op = "upload" /\ args[2].opts = "h1"
    /\ handles["h1"].reason = JSString("user cancelled")
    /\ timeoutSig[2].aborted
    /\ \A c \in {1, 2} : ~resp[c].present
    /\ outcome[2] = Throw(JSString("user cancelled"))
    /\ outcome[1] = outcome[2]

\* C30: logout resolves, to no value, only after a 2xx response that
\* declares JSON; it does so for every such response whose body decodes,
\* unless the call is cancelled first; and a 2xx response that does not
\* declare JSON fails it at once with an ApiError of that status.
C30_LogoutDecodes ==
    args[1].op = "logout" =>
        /\ outcome[1].kind = "return" =>
               /\ outcome[1].value = JSUndefined
               /\ resp[1].present
               /\ IsOk(resp[1].value) /\ DeclaresJson(resp[1].value)
        /\ resp[1].present /\ IsOk(resp[1].value) =>
               LET r == resp[1].value
               IN IF ~DeclaresJson(r)
                  THEN /\ pc[1] = "done"
                       /\ outcome[1] =
                              Throw(CreateApiError(r.status, r.statusText, JSUndefined))
                       /\ IsApiError(outcome[1].value)
                  ELSE Interpreted(1) /\ JSONParse(r.body).ok =>
                           outcome[1] = Return(JSUndefined)

\* logout has failed with an ApiError of status 204 on a 204 response
\* without content kind.
C30_Witness ==
    /\ args[1].op = "logout"
    /\ resp[1] = Some(Response(204, Absent, <<>>))
    /\ outcome[1] = Throw(CreateApiError(204, StatusText(204), JSUndefined))
====
